---- MODULE Spec2Model ----
(***************************************************************************)
(* A model of src/api/index.py: the /process-hair-swap handler, its three  *)
(* concurrent per-image tasks, the tmpfiles.org relay and the memory guard.*)
(*                                                                         *)
(* Python values are tagged records: [t |-> "none"], [t |-> "str", s |->   *)
(* <<characters>>], [t |-> "dict", kv |-> function], [t |-> "list"].       *)
(* A raised exception is [t |-> "raise", exc |-> name].                    *)
(***************************************************************************)
EXTENDS Integers, Sequences, FiniteSets, TLC

\* ------------------------------------------------------------ Python values

None == [t |-> "none"]
Str(s) == [t |-> "str", s |-> s]
Dict(kv) == [t |-> "dict", kv |-> kv]
List == [t |-> "list"]
Bool(b) == [t |-> "bool", b |-> b]
Raise(e) == [t |-> "raise", exc |-> e]
EmptyKv == [k \in {} |-> None]

IsStr(v) == v.t = "str"
IsRaise(v) == v.t = "raise"

\* bool(v): None, "" and {} are falsy; the (non-empty) JSON array is truthy.
Truthy(v) ==
  CASE v.t = "none" -> FALSE
    [] v.t = "str" -> v.s # <<>>
    [] v.t = "dict" -> DOMAIN v.kv # {}
    [] v.t = "bool" -> v.b
    [] OTHER -> TRUE

\* a or b
PyOr(a, b) == IF Truthy(a) THEN a ELSE b

\* d.get(k, default) for a dict d
DictGet(d, k, default) == IF k \in DOMAIN d.kv THEN d.kv[k] ELSE default

\* ------------------------------------------------------------ strings

\* s.startswith(p)
StartsWith(s, p) == Len(s) >= Len(p) /\ SubSeq(s, 1, Len(p)) = p

\* p in s
Contains(s, p) ==
  \E i \in 1..(Len(s) - Len(p) + 1) : SubSeq(s, i, i + Len(p) - 1) = p

\* s.replace(old, new): every non-overlapping occurrence, left to right.
RECURSIVE Replace(_, _, _)
Replace(s, old, new) ==
  IF s = <<>> THEN <<>>
  ELSE IF StartsWith(s, old)
       THEN new \o Replace(SubSeq(s, Len(old) + 1, Len(s)), old, new)
       ELSE <<Head(s)>> \o Replace(Tail(s), old, new)

Whitespace == {" ", "\n"}

RECURSIVE LStrip(_)
LStrip(s) == IF s # <<>> /\ Head(s) \in Whitespace THEN LStrip(Tail(s)) ELSE s

RECURSIVE RStrip(_)
RStrip(s) ==
  IF s # <<>> /\ s[Len(s)] \in Whitespace THEN RStrip(SubSeq(s, 1, Len(s) - 1)) ELSE s

\* s.strip()
Strip(s) == RStrip(LStrip(s))

\* "https://tmpfiles.org/"
TmpfilesOrigin ==
  <<"h","t","t","p","s",":","/","/","t","m","p","f","i","l","e","s",".","o","r","g","/">>
\* "/dl/"
DlMarker == <<"/","d","l","/">>
\* "https://tmpfiles.org/dl/"
TmpfilesDl == TmpfilesOrigin \o <<"d","l","/">>

\* ------------------------------------------------------------ the relay

\* An HTTP response of the upload host: a status and a body that is either
\* JSON ([t |-> "json", v |-> value]) or not ([t |-> "text", s |-> characters]).
HttpResp(status, body) == [status |-> status, body |-> body]
JsonBody(v) == [t |-> "json", v |-> v]
TextBody(s) == [t |-> "text", s |-> s]

\* download_resize_upload, the try/except that reads the uploaded URL.
ParseUploadedUrl(resp) ==
  IF resp.body.t = "text" THEN Str(Strip(resp.body.s))
  ELSE LET result == resp.body.v IN
    IF result.t # "dict" THEN Raise("AttributeError")
    ELSE LET data == DictGet(result, "data", Dict(EmptyKv)) IN
      IF data.t # "dict" THEN Raise("AttributeError")
      ELSE PyOr(PyOr(PyOr(DictGet(data, "url", None),
                          DictGet(result, "url", None)),
                     DictGet(result, "link", None)),
                result)

\* download_resize_upload, the rewrite to a direct-download link.
NormalizeUploadedUrl(uploaded_url) ==
  IF IsStr(uploaded_url) /\ StartsWith(uploaded_url.s, TmpfilesOrigin)
     /\ ~Contains(uploaded_url.s, DlMarker)
  THEN Str(Replace(uploaded_url.s, TmpfilesOrigin, TmpfilesDl))
  ELSE uploaded_url

\* download_resize_upload from the upload's response on: the uploaded URL, or
\* the exception raised.
RelayResized(resp) ==
  IF resp.status # 200 THEN Raise("Upload failed")
  ELSE LET uploaded_url == ParseUploadedUrl(resp) IN
    IF IsRaise(uploaded_url) THEN uploaded_url ELSE NormalizeUploadedUrl(uploaded_url)

\* upload_local_file, the try/except that reads the URL.
ParseUrl(resp) ==
  IF resp.body.t = "text" THEN Str(Strip(resp.body.s))
  ELSE LET result == resp.body.v IN
    IF result.t # "dict" THEN Raise("AttributeError")
    ELSE LET data == DictGet(result, "data", Dict(EmptyKv)) IN
      IF data.t # "dict" THEN Raise("AttributeError")
      ELSE PyOr(PyOr(PyOr(DictGet(data, "url", None),
                          DictGet(result, "url", None)),
                     DictGet(result, "link", None)),
                result)

NormalizeUrlAlways(url) ==
  IF IsStr(url) /\ StartsWith(url.s, TmpfilesOrigin)
  THEN Str(Replace(url.s, TmpfilesOrigin, TmpfilesDl))
  ELSE url

\* upload_local_file, the rewrite to a direct-download link.
NormalizeUrl(url) ==
  IF IsStr(url) /\ StartsWith(url.s, TmpfilesOrigin) /\ ~Contains(url.s, DlMarker)
  THEN Str(Replace(url.s, TmpfilesOrigin, TmpfilesDl))
  ELSE url

\* upload_local_file from the upload's response on.
RelayLocalFile(resp) ==
  IF resp.status # 200 THEN Raise("Upload failed")
  ELSE LET url == ParseUrl(resp) IN
    IF IsRaise(url) THEN url ELSE NormalizeUrl(url)

\* ------------------------------------------------------------ result extraction

\* One item of a sequence returned by /swap_hair: a descriptor (a dict with
\* optional keys visible and value) or something that is not a dict.
Descriptor(kv) == Dict(kv)

\* item.get('visible') of a dict item
ItemVisible(item) == Truthy(DictGet(item, "visible", None))

QualifiesHidden(item) == item.t = "dict" /\ "value" \in DOMAIN item.kv

\* isinstance(item, dict) and item.get('visible') and 'value' in item
Qualifies(item) ==
  item.t = "dict" /\ ItemVisible(item) /\ "value" \in DOMAIN item.kv

\* next((item['value'] for item in swap_output if ...), None)
RECURSIVE FirstQualifying(_)
FirstQualifying(items) ==
  IF items = <<>> THEN None
  ELSE IF Qualifies(Head(items)) THEN Head(items).kv["value"]
       ELSE FirstQualifying(Tail(items))

\* The swap output is [t |-> "seq", items |-> <<...>>] for a tuple or list and a
\* Python value otherwise. The result is swapped_local or the exception raised.
ExtractSwapped(swap_output) ==
  IF swap_output.t = "seq"
  THEN LET swapped_local == FirstQualifying(swap_output.items) IN
       IF ~Truthy(swapped_local) THEN Raise("Unexpected swap output format")
       ELSE swapped_local
  ELSE swap_output

\* ------------------------------------------------------------ state

Tasks == {"face", "shape", "color"}

VARIABLES
  req,           \* data.get('<task>_url') for the three tasks
  pc,            \* where process_hair_swap is
  tpc,           \* where each process_image task is
  api,           \* api_name each task was submitted with
  fetched,       \* download_resize_upload: the fetch response of each task
  sent,          \* download_resize_upload: whose image the task posted
  resized_url,   \* process_image: what download_resize_upload returned
  output_path,   \* process_image: what the resize call returned
  result,        \* each future's result
  err,           \* each future's exception
  tempFile,      \* temp_resized.jpg: "absent", or whose image it holds
  disk,          \* the other temporary files on disk
  local_files,   \* the tracked list
  dl_url,        \* face_dl_url, shape_dl_url, color_dl_url
  swap_output,
  swapped_local,
  swapCall,      \* the arguments of the /swap_hair call, once made
  pending,       \* the exception on its way to the except clause
  ret,           \* the value of the return statement reached
  response,      \* what the handler returned to the framework
  cleanupIdx,    \* position of the finally loop in local_files
  guardRss,      \* the reading of each evaluation of the memory guard
  killedAt,      \* the guard evaluation that killed the process
  contacted,     \* external services contacted so far
  calls,         \* how often each resize call, the swap call and the final relay were made
  fn, arg, out   \* a function under test, its argument and its result

taskVars == <<tpc, api, fetched, sent, resized_url, output_path, result, err>>
fileVars == <<tempFile, disk, local_files>>
swapVars == <<swap_output, swapped_local, swapCall>>
endVars == <<ret, response, cleanupIdx>>
guardVars == <<guardRss, killedAt>>
funVars == <<fn, arg, out>>
vars == <<req, pc, dl_url, pending, contacted, calls, taskVars, fileVars, swapVars,
          endVars, guardVars, funVars>>

Nothing == [t |-> "nothing"]
NoCall == [t |-> "nocall"]
NoResponse == [t |-> "noresponse"]
Response(status, key, val) ==
  [t |-> "response", status |-> status, key |-> key, val |-> val]

\* A source URL of the request.
SrcUrl == Str(<<"h", "t", "t", "p", "s", ":", "/", "/", "x", "/", "a">>)
\* What data.get(key) yields: None (key absent or null), "" or a URL.
FieldValues == {None, Str(<<>>), SrcUrl}

MEMORY_THRESHOLD_MB == 900

\* The readings of resident memory (MB) the model draws: at and above the threshold.
MemReadings == {MEMORY_THRESHOLD_MB, MEMORY_THRESHOLD_MB + 1}
GuardSites == {"entry", "pre_swap"} \cup Tasks

MemoryExceededAtThreshold(rss) == rss >= MEMORY_THRESHOLD_MB

\* ensure_memory_or_restart: whether the reading kills the process.
MemoryExceeded(rss) == rss > MEMORY_THRESHOLD_MB

ApiName(t) ==
  CASE t = "face" -> "/resize_inner"
    [] t = "shape" -> "/resize_inner_1"
    [] t = "color" -> "/resize_inner_2"

\* The file the resize call of task t leaves on disk, and those of /swap_hair.
OutputFile(t) == Str(<<"out_", t>>)
SwapFileA == Str(<<"swap_a">>)
SwapFileB == Str(<<"swap_b">>)

\* What the upload host answers in the handler's model: a landing-page URL
\* under data.url, a JSON object without any URL, a JSON object whose data is
\* null, and an error status.
LandingUrl == Str(TmpfilesOrigin \o <<"1", "/", "f">>)
HandlerUploadResponses ==
  { HttpResp(200, JsonBody(Dict([data |-> Dict([url |-> LandingUrl])]))),
    HttpResp(200, JsonBody(Dict([status |-> Str(<<"o", "k">>)]))),
    HttpResp(200, JsonBody(Dict([data |-> None]))),
    HttpResp(500, TextBody(<<"e">>)) }

Visible(v) == Descriptor([visible |-> Bool(TRUE), value |-> v])
Hidden(v) == Descriptor([visible |-> Bool(FALSE), value |-> v])
Seq_(items) == [t |-> "seq", items |-> items]

\* What /swap_hair returns in the handler's model.
HandlerSwapOutputs ==
  { SwapFileA, None, Dict([path |-> SwapFileA]),
    Seq_(<<>>),
    Seq_(<<Hidden(SwapFileA), Visible(SwapFileB)>>),
    Seq_(<<Visible(None), Visible(SwapFileB)>>),
    Seq_(<<Visible(Dict([path |-> SwapFileA]))>>) }

\* The files a swap output refers to: the client has downloaded them to disk.
FilesOfValue(v) ==
  IF v.t = "str" THEN {v}
  ELSE IF v.t = "dict" /\ "path" \in DOMAIN v.kv THEN {v.kv["path"]}
  ELSE {}
FilesOfItem(item) ==
  IF item.t = "dict" /\ "value" \in DOMAIN item.kv THEN FilesOfValue(item.kv["value"])
  ELSE {}
FilesOfOutput(o) ==
  IF o.t = "seq" THEN UNION {FilesOfItem(o.items[i]) : i \in DOMAIN o.items}
  ELSE FilesOfValue(o)

\* ------------------------------------------------------------ the handler

FunIdle == fn = "none" /\ arg = Nothing /\ out = <<>>

\* The calls that are counted: the resize call of each task, the /swap_hair
\* call and the upload of the swap result.
CallSites == Tasks \cup {"swap", "final"}
Called(c) == [calls EXCEPT ![c] = @ + 1]

\* The handler has been entered and has done nothing yet.
HandlerStart ==
  /\ pc = "guard"
  /\ tpc = [t \in Tasks |-> "idle"]
  /\ api = [t \in Tasks |-> "none"]
  /\ fetched = [t \in Tasks |-> Nothing]
  /\ sent = [t \in Tasks |-> "none"]
  /\ resized_url = [t \in Tasks |-> Nothing]
  /\ output_path = [t \in Tasks |-> Nothing]
  /\ result = [t \in Tasks |-> Nothing]
  /\ err = [t \in Tasks |-> "none"]
  /\ tempFile = "absent"
  /\ disk = {}
  /\ local_files = <<>>
  /\ dl_url = [t \in Tasks |-> Nothing]
  /\ swap_output = Nothing
  /\ swapped_local = Nothing
  /\ swapCall = NoCall
  /\ pending = "none"
  /\ ret = NoResponse
  /\ response = NoResponse
  /\ cleanupIdx = 1
  /\ guardRss = [g \in GuardSites |-> {}]
  /\ killedAt = "none"
  /\ contacted = {}
  /\ calls = [c \in CallSites |-> 0]

Init ==
  /\ req \in [Tasks -> FieldValues]
  /\ HandlerStart
  /\ FunIdle

AnyPresent == \E t \in Tasks : Truthy(req[t])

\* all([face_url, shape_url, color_url])
AllPresent == \A t \in Tasks : Truthy(req[t])

\* ensure_memory_or_restart() at the top of process_hair_swap
EntryGuard ==
  /\ pc = "guard"
  /\ \E rss \in MemReadings :
       /\ guardRss' = [guardRss EXCEPT !["entry"] = {rss}]
       /\ IF MemoryExceeded(rss)
          THEN pc' = "killed" /\ killedAt' = "entry"
          ELSE pc' = "parse" /\ killedAt' = killedAt
  /\ UNCHANGED <<req, calls, dl_url, pending, contacted, taskVars, fileVars, swapVars,
                 endVars, funVars>>

\* data = request.get_json(...) up to the 400 return
ParseBody ==
  /\ pc = "parse"
  /\ IF AllPresent
     THEN pc' = "submit_face" /\ response' = response
     ELSE /\ pc' = "done"
          /\ response' = Response(400, "error",
                                  Str(<<"face_url, shape_url, and color_url are required">>))
  /\ UNCHANGED <<req, calls, dl_url, pending, contacted, taskVars, fileVars, swapVars,
                 ret, cleanupIdx, guardVars, funVars>>

AfterSubmit(t) ==
  CASE t = "face" -> "submit_shape"
    [] t = "shape" -> "submit_color"
    [] t = "color" -> "join_face"

\* executor.submit(process_image, <t>_url, api_name): the task starts running
Submit(t) ==
  /\ pc = "submit_" \o t
  /\ tpc' = [tpc EXCEPT ![t] = "guard"]
  /\ api' = [api EXCEPT ![t] = ApiName(t)]
  /\ pc' = AfterSubmit(t)
  /\ UNCHANGED <<req, calls, dl_url, pending, contacted, fetched, sent, resized_url,
                 output_path, result, err, fileVars, swapVars, endVars, guardVars,
                 funVars>>

AfterJoin(t) ==
  CASE t = "face" -> "join_shape"
    [] t = "shape" -> "join_color"
    [] t = "color" -> "pool_exit"

Terminated(t) == tpc[t] \in {"done", "failed"}

\* <t>_dl_url = future_<t>.result(): blocks until the task ends, re-raises
Join(t) ==
  /\ pc = "join_" \o t
  /\ Terminated(t)
  /\ IF tpc[t] = "failed"
     THEN pc' = "pool_exit" /\ pending' = err[t] /\ dl_url' = dl_url
     ELSE pc' = AfterJoin(t) /\ pending' = pending
          /\ dl_url' = [dl_url EXCEPT ![t] = result[t]]
  /\ UNCHANGED <<req, calls, contacted, taskVars, fileVars, swapVars, endVars, guardVars,
                 funVars>>

PoolWaitsForNone == {}

\* Leaving the with block: shutdown(wait=True) waits for these tasks.
PoolWaitsFor == Tasks

\* ThreadPoolExecutor.__exit__, then the exception (if any) goes on
PoolExit ==
  /\ pc = "pool_exit"
  /\ \A t \in PoolWaitsFor : Terminated(t)
  /\ pc' = IF pending = "none" THEN "guard2" ELSE "except"
  /\ UNCHANGED <<req, calls, dl_url, pending, contacted, taskVars, fileVars, swapVars,
                 endVars, guardVars, funVars>>

\* ensure_memory_or_restart() before the swap
PreSwapGuard ==
  /\ pc = "guard2"
  /\ \E rss \in MemReadings :
       /\ guardRss' = [guardRss EXCEPT !["pre_swap"] = {rss}]
       /\ IF MemoryExceeded(rss)
          THEN pc' = "killed" /\ killedAt' = "pre_swap"
          ELSE pc' = "swap" /\ killedAt' = killedAt
  /\ UNCHANGED <<req, calls, dl_url, pending, contacted, taskVars, fileVars, swapVars,
                 endVars, funVars>>

SwapArgsCrossed ==
  [face |-> dl_url["shape"], shape |-> dl_url["face"], color |-> dl_url["color"]]

\* The face, shape and color arguments of /swap_hair.
SwapArgs == [face |-> dl_url["face"], shape |-> dl_url["shape"], color |-> dl_url["color"]]

\* client.predict(..., api_name="/swap_hair"): int() of a tuning parameter may
\* raise before the call; the call may fail; or it returns swap_output
SwapCall ==
  /\ pc = "swap"
  /\ \E tuningOk \in BOOLEAN :
       IF ~tuningOk
       THEN /\ pc' = "except" /\ pending' = "ValueError"
            /\ UNCHANGED <<contacted, calls, swapVars, disk>>
       ELSE /\ contacted' = contacted \cup {"swap"}
            /\ calls' = Called("swap")
            /\ swapCall' = SwapArgs
            /\ \/ /\ pc' = "except" /\ pending' = "swap call failed"
                  /\ UNCHANGED <<swap_output, disk>>
               \/ \E o \in HandlerSwapOutputs :
                    /\ swap_output' = o
                    /\ disk' = disk \cup FilesOfOutput(o)
                    /\ pc' = "extract" /\ pending' = pending
            /\ swapped_local' = swapped_local
  /\ UNCHANGED <<req, dl_url, taskVars, tempFile, local_files, endVars, guardVars,
                 funVars>>

\* The isinstance(swap_output, (tuple, list)) block
Extract ==
  /\ pc = "extract"
  /\ LET r == ExtractSwapped(swap_output) IN
       IF IsRaise(r)
       THEN pc' = "except" /\ pending' = r.exc /\ swapped_local' = swapped_local
       ELSE pc' = "track" /\ pending' = pending /\ swapped_local' = r
  /\ UNCHANGED <<req, calls, dl_url, contacted, taskVars, fileVars, swap_output, swapCall,
                 endVars, guardVars, funVars>>

\* local_files.append(swapped_local)
Track ==
  /\ pc = "track"
  /\ local_files' = Append(local_files, swapped_local)
  /\ pc' = "upload"
  /\ UNCHANGED <<req, calls, dl_url, pending, contacted, taskVars, tempFile, disk,
                 swapVars, endVars, guardVars, funVars>>

\* open(local_path, 'rb'): the exception it raises, or "none"
OpenError(path) ==
  IF path.t # "str" THEN "TypeError"
  ELSE IF path \notin disk THEN "FileNotFoundError"
  ELSE "none"

\* swapped_dl_url = upload_local_file(swapped_local); return ..., 200
UploadFinal ==
  /\ pc = "upload"
  /\ IF OpenError(swapped_local) # "none"
     THEN /\ pc' = "except" /\ pending' = OpenError(swapped_local)
          /\ UNCHANGED <<contacted, calls, ret>>
     ELSE /\ contacted' = contacted \cup {"upload"}
          /\ calls' = Called("final")
          /\ \/ pc' = "except" /\ pending' = "ConnectionError" /\ ret' = ret
             \/ \E resp \in HandlerUploadResponses :
                  LET url == RelayLocalFile(resp) IN
                    IF IsRaise(url)
                    THEN pc' = "except" /\ pending' = url.exc /\ ret' = ret
                    ELSE /\ pc' = "cleanup" /\ pending' = pending
                         /\ ret' = Response(200, "result_url", url)
  /\ UNCHANGED <<req, dl_url, taskVars, fileVars, swapVars, response, cleanupIdx,
                 guardVars, funVars>>

ExceptWithoutReturn ==
  /\ pc = "except"
  /\ pc' = "cleanup"
  /\ UNCHANGED <<req, calls, dl_url, pending, contacted, taskVars, fileVars, swapVars,
                 endVars, guardVars, funVars>>

\* except Exception as e: return jsonify({"error": str(e)}), 500
Except ==
  /\ pc = "except"
  /\ ret' = Response(500, "error", Str(<<pending>>))
  /\ pc' = "cleanup"
  /\ UNCHANGED <<req, calls, dl_url, pending, contacted, taskVars, fileVars, swapVars,
                 response, cleanupIdx, guardVars, funVars>>

\* os.path.isfile(path) raises TypeError for a value that is no path.
IsFileRaises(path) == path.t \notin {"str", "none"}
IsFile(path) == path.t = "str" /\ path \in disk

\* One turn of the finally loop, or its end: the return value goes out
Cleanup ==
  /\ pc = "cleanup"
  /\ IF cleanupIdx > Len(local_files)
     THEN /\ pc' = "done" /\ response' = ret
          /\ UNCHANGED <<cleanupIdx, disk>>
     ELSE LET path == local_files[cleanupIdx] IN
          IF Truthy(path) /\ IsFileRaises(path)
          THEN /\ pc' = "raised"
               /\ UNCHANGED <<response, cleanupIdx, disk>>
          ELSE /\ pc' = pc /\ response' = response
               /\ cleanupIdx' = cleanupIdx + 1
               /\ IF Truthy(path) /\ IsFile(path)
                  THEN \/ disk' = disk \ {path}
                       \/ disk' = disk      \* os.remove raised OSError
                  ELSE disk' = disk
  /\ UNCHANGED <<req, calls, dl_url, pending, contacted, taskVars, tempFile, local_files,
                 swapVars, ret, guardVars, funVars>>

\* ------------------------------------------------------------ process_image

Running == pc # "killed"

\* The task ends with exception e; the frames of its calls are gone.
TaskFails(t, e) ==
  /\ tpc' = [tpc EXCEPT ![t] = "failed"]
  /\ err' = [err EXCEPT ![t] = e]
  /\ fetched' = [fetched EXCEPT ![t] = Nothing]
  /\ sent' = [sent EXCEPT ![t] = "none"]

\* ensure_memory_or_restart() at the top of process_image
TaskGuard(t) ==
  /\ Running /\ tpc[t] = "guard"
  /\ \E rss \in MemReadings :
       /\ guardRss' = [guardRss EXCEPT ![t] = {rss}]
       /\ IF MemoryExceeded(rss)
          THEN pc' = "killed" /\ killedAt' = t /\ tpc' = tpc
          ELSE pc' = pc /\ killedAt' = killedAt /\ tpc' = [tpc EXCEPT ![t] = "fetch"]
  /\ UNCHANGED <<req, calls, dl_url, pending, contacted, api, fetched, sent, resized_url,
                 output_path, result, err, fileVars, swapVars, endVars, funVars>>

\* response = requests.get(url): a transport failure raises; any status returns
Fetch(t) ==
  /\ Running /\ tpc[t] = "fetch"
  /\ contacted' = contacted \cup {"fetch"}
  /\ \/ TaskFails(t, "ConnectionError")
     \/ \E ok \in BOOLEAN, image \in BOOLEAN :
          /\ fetched' = [fetched EXCEPT ![t] = [ok |-> ok, image |-> image]]
          /\ tpc' = [tpc EXCEPT ![t] = "decode"]
          /\ UNCHANGED <<err, sent>>
  /\ UNCHANGED <<req, calls, pc, dl_url, pending, api, resized_url, output_path, result,
                 fileVars, swapVars, endVars, guardVars, funVars>>

\* Image.open(BytesIO(response.content)).convert('RGB'); img.resize((480, 480))
Decode(t) ==
  /\ Running /\ tpc[t] = "decode"
  /\ IF fetched[t].image
     THEN tpc' = [tpc EXCEPT ![t] = "save"] /\ UNCHANGED <<err, fetched, sent>>
     ELSE TaskFails(t, "UnidentifiedImageError")
  /\ UNCHANGED <<req, calls, pc, dl_url, pending, contacted, api, resized_url, output_path,
                 result, fileVars, swapVars, endVars, guardVars, funVars>>

\* img_resized.save("temp_resized.jpg"): one file name for all three tasks
Save(t) ==
  /\ Running /\ tpc[t] = "save"
  /\ tempFile' = t
  /\ tpc' = [tpc EXCEPT ![t] = "post"]
  /\ UNCHANGED <<req, calls, pc, dl_url, pending, contacted, api, fetched, sent,
                 resized_url, output_path, result, err, disk, local_files, swapVars,
                 endVars, guardVars, funVars>>

\* open(temp_filename, 'rb'), requests.post(...), and the reading of its answer
PostResized(t) ==
  /\ Running /\ tpc[t] = "post"
  /\ IF tempFile = "absent"
     THEN TaskFails(t, "FileNotFoundError") /\ UNCHANGED <<contacted, resized_url>>
     ELSE /\ contacted' = contacted \cup {"upload"}
          /\ \/ TaskFails(t, "ConnectionError") /\ resized_url' = resized_url
             \/ \E resp \in HandlerUploadResponses :
                  LET uploaded_url == RelayResized(resp) IN
                    IF IsRaise(uploaded_url)
                    THEN TaskFails(t, uploaded_url.exc) /\ resized_url' = resized_url
                    ELSE /\ resized_url' = [resized_url EXCEPT ![t] = uploaded_url]
                         /\ sent' = [sent EXCEPT ![t] = tempFile]
                         /\ tpc' = [tpc EXCEPT ![t] = "remove"]
                         /\ UNCHANGED <<err, fetched>>
  /\ UNCHANGED <<req, calls, pc, dl_url, pending, api, output_path, result, fileVars,
                 swapVars, endVars, guardVars, funVars>>

\* os.remove(temp_filename); return uploaded_url
RemoveTemp(t) ==
  /\ Running /\ tpc[t] = "remove"
  /\ IF tempFile = "absent"
     THEN /\ TaskFails(t, "FileNotFoundError")
          /\ resized_url' = [resized_url EXCEPT ![t] = Nothing]
          /\ tempFile' = tempFile
     ELSE /\ tempFile' = "absent"
          /\ tpc' = [tpc EXCEPT ![t] = "predict"]
          /\ fetched' = [fetched EXCEPT ![t] = Nothing]
          /\ sent' = [sent EXCEPT ![t] = "none"]
          /\ UNCHANGED <<err, resized_url>>
  /\ UNCHANGED <<req, calls, pc, dl_url, pending, contacted, api, output_path, result,
                 disk, local_files, swapVars, endVars, guardVars, funVars>>

\* output_path = client.predict(img=file(resized_url), ..., api_name=api_name)
Predict(t) ==
  /\ Running /\ tpc[t] = "predict"
  /\ contacted' = contacted \cup {"resize"}
  /\ calls' = Called(t)
  /\ \/ TaskFails(t, "resize call failed") /\ UNCHANGED <<output_path, disk>>
     \/ /\ output_path' = [output_path EXCEPT ![t] = OutputFile(t)]
        /\ disk' = disk \cup {OutputFile(t)}
        /\ tpc' = [tpc EXCEPT ![t] = "append"]
        /\ UNCHANGED <<err, fetched, sent>>
  /\ UNCHANGED <<req, pc, dl_url, pending, api, resized_url, result, tempFile,
                 local_files, swapVars, endVars, guardVars, funVars>>

\* local_files.append(output_path)
AppendOutput(t) ==
  /\ Running /\ tpc[t] = "append"
  /\ local_files' = Append(local_files, output_path[t])
  /\ tpc' = [tpc EXCEPT ![t] = "upload_out"]
  /\ UNCHANGED <<req, calls, pc, dl_url, pending, contacted, api, fetched, sent,
                 resized_url, output_path, result, err, tempFile, disk, swapVars,
                 endVars, guardVars, funVars>>

\* return upload_local_file(output_path)
UploadOutput(t) ==
  /\ Running /\ tpc[t] = "upload_out"
  /\ IF OpenError(output_path[t]) # "none"
     THEN TaskFails(t, OpenError(output_path[t])) /\ UNCHANGED <<contacted, result>>
     ELSE /\ contacted' = contacted \cup {"upload"}
          /\ \/ TaskFails(t, "ConnectionError") /\ result' = result
             \/ \E resp \in HandlerUploadResponses :
                  LET url == RelayLocalFile(resp) IN
                    IF IsRaise(url)
                    THEN TaskFails(t, url.exc) /\ result' = result
                    ELSE /\ result' = [result EXCEPT ![t] = url]
                         /\ tpc' = [tpc EXCEPT ![t] = "done"]
                         /\ UNCHANGED <<err, fetched, sent>>
  /\ UNCHANGED <<req, calls, pc, dl_url, pending, api, resized_url, output_path, fileVars,
                 swapVars, endVars, guardVars, funVars>>

Next ==
  \/ EntryGuard
  \/ ParseBody
  \/ \E t \in Tasks : Submit(t)
  \/ \E t \in Tasks : Join(t)
  \/ PoolExit
  \/ PreSwapGuard
  \/ SwapCall
  \/ Extract
  \/ Track
  \/ UploadFinal
  \/ Except
  \/ Cleanup
  \/ \E t \in Tasks : TaskGuard(t)
  \/ \E t \in Tasks : Fetch(t)
  \/ \E t \in Tasks : Decode(t)
  \/ \E t \in Tasks : Save(t)
  \/ \E t \in Tasks : PostResized(t)
  \/ \E t \in Tasks : RemoveTemp(t)
  \/ \E t \in Tasks : Predict(t)
  \/ \E t \in Tasks : AppendOutput(t)
  \/ \E t \in Tasks : UploadOutput(t)

Spec == Init /\ [][Next]_vars

\* ------------------------------------------------------------ the functions alone

handlerVars == <<req, pc, dl_url, pending, contacted, calls, taskVars, fileVars, swapVars,
                 endVars, guardVars>>
HandlerIdle == req = [t \in Tasks |-> None] /\ HandlerStart

\* All sequences over S of length at most n.
RECURSIVE SeqsUpTo(_, _)
SeqsUpTo(S, n) ==
  IF n = 0 THEN {<<>>}
  ELSE LET shorter == SeqsUpTo(S, n - 1) IN
       shorter \cup {Append(q, x) : q \in shorter, x \in S}

RECURSIVE Flatten(_)
Flatten(parts) == IF parts = <<>> THEN <<>> ELSE Head(parts) \o Flatten(Tail(parts))

\* URL normalisation: strings built of at most MaxParts of these parts, and two
\* values that are no strings.
MaxParts == 3
UrlParts == {TmpfilesOrigin, DlMarker, <<"d", "l", "/">>, <<"x">>, <<"/">>}
NormalizeInputs ==
  {Str(Flatten(parts)) : parts \in SeqsUpTo(UrlParts, MaxParts)}
    \cup {None, Dict([status |-> Str(<<"o", "k">>)])}
NormalizeFns == {"upload_local_file", "download_resize_upload"}

InitNormalize ==
  /\ HandlerIdle
  /\ fn \in NormalizeFns
  /\ arg \in NormalizeInputs
  /\ out = <<>>

\* The normalisation of fn applied to the argument, then to its own result.
ApplyNormalize ==
  /\ fn \in NormalizeFns
  /\ Len(out) < 2
  /\ LET u == IF out = <<>> THEN arg ELSE out[Len(out)] IN
       out' = Append(out, IF fn = "upload_local_file" THEN NormalizeUrl(u)
                          ELSE NormalizeUploadedUrl(u))
  /\ UNCHANGED <<handlerVars, fn, arg>>

SpecNormalize == InitNormalize /\ [][ApplyNormalize]_vars

\* The relay: every shape of the upload host's answer.
UrlUnderData == Str(TmpfilesOrigin \o <<"1">>)
UrlTop == Str(TmpfilesDl \o <<"2">>)
UrlLink == Str(<<"h", "t", "t", "p", ":", "/", "/", "y", "/", "3">>)
Kv(k, vals) == {EmptyKv} \cup {k :> v : v \in vals}
DataValues ==
  {None, List, Dict(EmptyKv), Dict([url |-> Str(<<>>)]), Dict([url |-> UrlUnderData])}
JsonObjects ==
  {Dict(d @@ u @@ l) : d \in Kv("data", DataValues),
                       u \in Kv("url", {Str(<<>>), UrlTop}),
                       l \in Kv("link", {Str(<<>>), UrlLink})}
RelayBodies ==
  {JsonBody(v) : v \in JsonObjects \cup {List, None}}
    \cup {TextBody(s) : s \in {<<>>, <<" ", "u", " ", "\n">>,
                               <<"\n">> \o TmpfilesOrigin \o <<"9", " ">>}}
RelayResponses == {HttpResp(st, b) : st \in {200, 500}, b \in RelayBodies}
RelayFns == {"upload_local_file", "download_resize_upload"}

InitRelay ==
  /\ HandlerIdle
  /\ fn \in RelayFns
  /\ arg \in RelayResponses
  /\ out = <<>>

\* fn from the upload's response on
ApplyRelay ==
  /\ fn \in RelayFns
  /\ out = <<>>
  /\ out' = <<IF fn = "upload_local_file" THEN RelayLocalFile(arg) ELSE RelayResized(arg)>>
  /\ UNCHANGED <<handlerVars, fn, arg>>

SpecRelay == InitRelay /\ [][ApplyRelay]_vars

\* Result extraction: every sequence of at most MaxDesc items, and values that
\* are no sequence.
MaxDesc == 2
ItemValues == {None, Str(<<>>), SwapFileA, SwapFileB}
SwapItems ==
  {Descriptor(vis @@ val) : vis \in Kv("visible", {Bool(TRUE), Bool(FALSE)}),
                            val \in Kv("value", ItemValues)}
    \cup {SwapFileA}
SwapOutputs ==
  {Seq_(items) : items \in SeqsUpTo(SwapItems, MaxDesc)}
    \cup {SwapFileA, None, Dict([path |-> SwapFileA])}

InitExtract ==
  /\ HandlerIdle
  /\ fn = "extract"
  /\ arg \in SwapOutputs
  /\ out = <<>>

\* The isinstance(swap_output, (tuple, list)) block on its own
ApplyExtract ==
  /\ fn = "extract"
  /\ out = <<>>
  /\ out' = <<ExtractSwapped(arg)>>
  /\ UNCHANGED <<handlerVars, fn, arg>>

SpecExtract == InitExtract /\ [][ApplyExtract]_vars

\* ------------------------------------------------------------ the claims

IsResponse(r, status, key) == r.t = "response" /\ r.status = status /\ r.key = key
Ended == pc \in {"done", "killed", "raised"}
\* The request as the claims see it.
UrlsPresent == \A t \in Tasks : req[t] \notin {None, Str(<<>>)}
MissingUrl == \E t \in Tasks : req[t] \in {None, Str(<<>>)}
\* No temporary file is left that the cleanup loop was not given: temp_resized.jpg
\* is gone and whatever else is on disk is tracked (a tracked file stays only
\* when the operating system refused its removal).
NoUntrackedTempLeft ==
  /\ tempFile = "absent"
  /\ \A f \in disk : \E i \in DOMAIN local_files : local_files[i] = f
KilledByGuard ==
  /\ pc = "killed" /\ response = NoResponse
  /\ killedAt \in GuardSites /\ \E r \in guardRss[killedAt] : r > 900

C3_NoTempAtReturn ==
  (pc = "done" /\ response.t = "response" /\ response.status \in {200, 500})
    => NoUntrackedTempLeft

\* C4: when one of the three per-image tasks has failed (and its two siblings
\* have not), the handler returns a 500 and leaves no temporary file behind.
C4_TaskFailureClean ==
  (pc = "done" /\ Cardinality({t \in Tasks : tpc[t] = "failed"}) = 1) =>
    IsResponse(response, 500, "error") /\ NoUntrackedTempLeft

\* C5: the memory guard is evaluated at handler entry before anything else and
\* again after the three tasks are joined and before the swap call; a reading
\* above 900 MB kills the process there: no response, no swap call.
C5_GuardKills ==
  /\ \A g \in GuardSites : \A r \in guardRss[g] :
       r > 900 => pc = "killed" /\ killedAt = g
  /\ pc = "killed" => KilledByGuard /\ ret = NoResponse /\ swapCall = NoCall
  /\ (pc # "guard" \/ contacted # {} \/ \E t \in Tasks : tpc[t] # "idle")
       => guardRss["entry"] # {}
  /\ guardRss["entry"] = {} => pc = "guard" /\ contacted = {}
  /\ guardRss["pre_swap"] # {} =>
       \A t \in Tasks : tpc[t] = "done" /\ dl_url[t] = result[t]
  /\ swapCall # NoCall => guardRss["pre_swap"] # {}
  /\ (pc = "killed" /\ killedAt = "entry") =>
       contacted = {} /\ \A t \in Tasks : tpc[t] = "idle"

C5_Witness == pc = "killed" /\ killedAt = "pre_swap" /\ "resize" \in contacted

\* What the claims call a qualifying descriptor: visible is true, value is present.
ClaimQualifies(item) ==
  /\ item.t = "dict"
  /\ "visible" \in DOMAIN item.kv /\ item.kv["visible"] = Bool(TRUE)
  /\ "value" \in DOMAIN item.kv
QualifyingAt(items) == {i \in DOMAIN items : ClaimQualifies(items[i])}
FirstQualifyingValue(items) ==
  items[CHOOSE i \in QualifyingAt(items) : \A j \in QualifyingAt(items) : i <= j].kv["value"]

Populated(v) == v \notin {None, Str(<<>>)}
FieldOf(d, k) == IF d.t = "dict" /\ k \in DOMAIN d.kv THEN d.kv[k] ELSE None
FirstPopulated(v) ==
  IF Populated(FieldOf(FieldOf(v, "data"), "url")) THEN FieldOf(FieldOf(v, "data"), "url")
  ELSE IF Populated(FieldOf(v, "url")) THEN FieldOf(v, "url")
  ELSE IF Populated(FieldOf(v, "link")) THEN FieldOf(v, "link")
  ELSE v
Extracted(resp) ==
  IF resp.body.t = "json" THEN FirstPopulated(resp.body.v) ELSE Str(Strip(resp.body.s))

\* C7: of a 200 answer that is a JSON object, both relay functions return (in
\* its direct-download form) the first populated of data.url, url and link, or
\* the parsed value when none is populated, also when data is present and no
\* object; of a 200 answer that is not JSON, the trimmed body.
C7_FirstPopulatedField ==
  (/\ fn \in RelayFns /\ out # <<>> /\ arg.status = 200
   /\ arg.body.t = "json" => arg.body.v.t = "dict") =>
    out[1] = (IF fn = "upload_local_file" THEN NormalizeUrl(Extracted(arg))
              ELSE NormalizeUploadedUrl(Extracted(arg)))

DirectDownload(u) ==
  IsStr(u) /\ StartsWith(u.s, TmpfilesOrigin) /\ Contains(u.s, DlMarker)
ForeignUrl(u) == IsStr(u) /\ ~StartsWith(u.s, TmpfilesOrigin)

\* C8: normalising twice gives what normalising once gives; a direct-download
\* link and a URL of another origin come back unchanged.
C8_NormalizeIdempotent ==
  fn \in NormalizeFns =>
    /\ Len(out) = 2 => out[2] = out[1]
    /\ (Len(out) >= 1 /\ (DirectDownload(arg) \/ ForeignUrl(arg))) => out[1] = arg

C8_Witness ==
  /\ fn \in NormalizeFns /\ Len(out) = 2
  /\ arg = Str(TmpfilesOrigin \o <<"x">>)
  /\ out[2] = Str(TmpfilesDl \o <<"x">>)

\* C9: three tasks are started, with /resize_inner, /resize_inner_1 and
\* /resize_inner_2; the swap call is made only when all three have completed
\* successfully and gets each task's result in that task's slot.
C9_FanInBeforeSwap ==
  /\ \A t \in Tasks : tpc[t] # "idle" =>
       api[t] = (CASE t = "face" -> "/resize_inner"
                   [] t = "shape" -> "/resize_inner_1"
                   [] t = "color" -> "/resize_inner_2")
  /\ pc \in {"join_face", "join_shape", "join_color", "pool_exit", "guard2", "swap",
             "extract", "track", "upload", "except", "cleanup", "raised"}
       => \A t \in Tasks : tpc[t] # "idle"
  /\ swapCall # NoCall =>
       /\ \A t \in Tasks : tpc[t] = "done"
       /\ swapCall.face = result["face"]
       /\ swapCall.shape = result["shape"]
       /\ swapCall.color = result["color"]

C9_Witness == swapCall # NoCall /\ result["face"] # result["shape"]

\* C10: once the handler is past the pool (in the except clause, in cleanup, or
\* done with a 200 or 500), every per-image task has terminated, whether or not
\* a sibling failed: none is cancelled, none is still running or appending.
C10_SiblingsJoined ==
  (\/ pc \in {"except", "cleanup", "raised"}
   \/ pc = "done" /\ ~IsResponse(response, 400, "error"))
    => \A t \in Tasks : tpc[t] \in {"done", "failed"}

C10_Witness ==
  /\ pc = "except" /\ pending = err["face"]
  /\ tpc["face"] = "failed" /\ tpc["shape"] = "done" /\ tpc["color"] = "done"

\* A step of the pipeline has failed: a task ended with an exception, or an
\* exception is on its way to (or was handled by) the except clause.
StepFailed == (\E t \in Tasks : tpc[t] = "failed") \/ pending # "none"

\* C11: no resize call, swap call or final relay is made twice; once a step has
\* failed the swap call and the final relay are not made; and the handler then
\* answers with a 500 whose error is the string of the failure, never with a
\* result_url.
C11_NoRetryAbortWith500 ==
  /\ \A c \in CallSites : calls[c] <= 1
  /\ (\E t \in Tasks : tpc[t] = "failed") =>
       calls["swap"] = 0 /\ calls["final"] = 0 /\ swapCall = NoCall
  /\ pending = "ValueError" => calls["swap"] = 0 /\ calls["final"] = 0
  /\ pending \in {"swap call failed", "Unexpected swap output format", "TypeError",
                  "FileNotFoundError"} => calls["final"] = 0
  /\ StepFailed => ~IsResponse(ret, 200, "result_url")
  /\ (StepFailed /\ pc \in {"done", "raised"}) =>
       /\ IsResponse(response, 500, "error")
       /\ response.val = Str(<<pending>>)
       /\ (\E t \in Tasks : tpc[t] = "failed") =>
            \E t \in Tasks : tpc[t] = "failed" /\ pending = err[t]

\* C12: the finally loop runs on every path that entered the pipeline and
\* tries every tracked value; a failure on one of them stops neither the loop
\* nor the response already decided, and never reaches the caller.
C12_CleanupNeverSurfaces ==
  /\ pc # "raised"
  /\ (pc = "done" /\ ~IsResponse(response, 400, "error")) =>
       cleanupIdx = Len(local_files) + 1 /\ response = ret /\ ret # NoResponse

\* C13: a fetch that answered with a non-success status is never decoded,
\* resized and relayed: the task fails instead.
C13_NonSuccessFetchFails ==
  \A t \in Tasks :
    (fetched[t] # Nothing /\ ~fetched[t].ok) => tpc[t] \notin {"save", "post", "remove"}

\* C14: a task posts the resized image of its own source URL, and no task
\* fails because temp_resized.jpg was removed by a sibling.
C14_OwnImageRelayed ==
  \A t \in Tasks : sent[t] \in {"none", t} /\ err[t] # "FileNotFoundError"

====
